---------------------------- MODULE Spec2Model ----------------------------
(***************************************************************************)
(* LRUCache<K, V>: a hash map from keys to list nodes plus a doubly-linked *)
(* list with two sentinel nodes (head, tail) that keeps the nodes in       *)
(* recency order.  The heap of LRUNode objects is modelled explicitly:     *)
(* every node is a record with the fields key, value, prev and next, and   *)
(* prev/next hold node references (or NULL).                               *)
(***************************************************************************)
EXTENDS Integers, Sequences, FiniteSets, TLC

\* ------------------------------------------------------------------ bounds

\* Largest capacity a cache is constructed with.
MaxCapacity == 3

\* Number of distinct non-null keys the callers use.
NumKeys == 4

\* ------------------------------------------------------------ value spaces

\* The null reference held by LRUNode.prev / LRUNode.next.
NULL == 0

\* The two sentinel nodes allocated by the constructor.
head == 1
tail == 2

\* References of the entry nodes created by put.  At most capacity entries
\* are live, and put creates the new node before it evicts.
EntryRefs == (tail + 1)..(tail + MaxCapacity + 1)

KeyNames == <<"a", "b", "c", "d", "e", "f">>

\* The keys callers pass that are neither null nor undefined.
Keys == {KeyNames[i] : i \in 1..NumKeys}

\* JavaScript's null and undefined (as a key, a value or a result).
NULLKEY == "null"
UNDEFINED == "undefined"

\* Every key a caller can pass to put/get/getSafe/has.
KeyInputs == Keys \cup {NULLKEY, UNDEFINED}

\* Values callers store; V is unrestricted, so undefined is one of them.
Values == {"v1", UNDEFINED}

\* ------------------------------------------------------------------ errors

NoError == [name |-> "none", message |-> "", cause |-> ""]

LRUCacheError(message, cause) ==
    [name |-> "LRUCacheError", message |-> message, cause |-> cause]

InvalidCapacityError ==
    [name |-> "InvalidCapacityError", message |-> "Invalid capacity", cause |-> ""]

KeyNotFoundError ==
    [name |-> "KeyNotFoundError", message |-> "Key not found", cause |-> ""]

\* Not an error: the loop of keys() never reaches tail (a cycle in the list).
NonTermination == [name |-> "NonTermination", message |-> "", cause |-> ""]

\* The error put throws for a null or undefined key (the InvalidKey kind).
InvalidKeyError == LRUCacheError("Key cannot be null or undefined", "")

\* ------------------------------------------------------------------- state

VARIABLES
    capacity,   \* LRUCache.capacity
    cache,      \* LRUCache.cache: Map<K, LRUNode>, a function key -> reference
    nodes,      \* the heap: reference -> LRUNode record
    op,         \* the last public call: name, arguments, result, error
    old,        \* the cache object as it was when that call started
    refLru,     \* the reference LRU sequence kept side by side with the cache
    lastPut,    \* for each live key, the value of the most recent put of it
    since       \* for each key used, what was called since its last use

vars == <<capacity, cache, nodes, op, old, refLru, lastPut, since>>

\* The cache object: its fields and the nodes they reach.
this == [capacity |-> capacity, cache |-> cache, nodes |-> nodes]

\* new LRUNode(key, value)
LRUNode(key, value) ==
    [key |-> key, value |-> value, prev |-> NULL, next |-> NULL]

\* The reference a `new LRUNode` gets: one no live node has.
NewRef(h) ==
    CHOOSE n \in EntryRefs \ DOMAIN h : \A m \in EntryRefs \ DOMAIN h : n <= m

\* The nodes the cache object can still reach: from head, tail and the map's
\* values, along prev and next.  The others are garbage.
RECURSIVE ReachFrom(_, _)
ReachFrom(h, seen) ==
    LET more == {h[n].prev : n \in seen} \cup {h[n].next : n \in seen}
        nxt  == seen \cup ((more \ {NULL}) \cap DOMAIN h)
    IN  IF nxt = seen THEN seen ELSE ReachFrom(h, nxt)

Reachable(h, c) ==
    ReachFrom(h, ({head, tail} \cup {c[k] : k \in DOMAIN c}) \cap DOMAIN h)

\* Garbage collection: unreachable nodes leave the heap.
Collect(h, c) == [n \in Reachable(h, c) |-> h[n]]

\* The references met from `current` along next, up to tail.
RECURSIVE refsFrom(_, _, _)
refsFrom(h, current, fuel) ==
    IF current = tail \/ current = NULL \/ current \notin DOMAIN h \/ fuel = 0
    THEN <<>>
    ELSE <<current>> \o refsFrom(h, h[current].next, fuel - 1)

\* References are opaque to the program, so the collector may move nodes.
\* When the list from head enumerates every entry node once, the entry at
\* position i is moved to reference tail + i; any other heap is left alone.
RECURSIVE MoveTo(_, _)
MoveTo(L, i) ==
    IF i > Len(L) THEN (NULL :> NULL) @@ (head :> head) @@ (tail :> tail)
    ELSE (L[i] :> tail + i) @@ MoveTo(L, i + 1)

Relocation(h) ==
    LET L == refsFrom(h, h[head].next, Cardinality(DOMAIN h))
        listed == {L[i] : i \in 1..Len(L)}
    IN  IF listed = DOMAIN h \ {head, tail} /\ Cardinality(listed) = Len(L)
        THEN MoveTo(L, 1)
        ELSE [n \in DOMAIN h \cup {NULL} |-> n]

MoveNodes(h, to) ==
    [m \in {to[n] : n \in DOMAIN h} |->
        LET n == CHOOSE x \in DOMAIN h : to[x] = m
        IN  [key |-> h[n].key, value |-> h[n].value,
             prev |-> to[h[n].prev], next |-> to[h[n].next]]]

MoveCache(c, to) == [k \in DOMAIN c |-> to[c[k]]]

\* ----------------------------------------------------------- private helpers

\* removeNode with the assignment next.prev = prev left out.
removeNodeForwardOnly(h, node) ==
    IF h[node].prev = NULL \/ h[node].next = NULL
    THEN [err |-> LRUCacheError("Invalid node state: missing links", ""),
          nodes |-> h]
    ELSE [err |-> NoError,
          nodes |-> [h EXCEPT ![h[node].prev].next = h[node].next]]

removeNode(h, node) ==
    IF h[node].prev = NULL \/ h[node].next = NULL
    THEN [err |-> LRUCacheError("Invalid node state: missing links", ""),
          nodes |-> h]
    ELSE LET prev == h[node].prev
             next == h[node].next
             h1   == [h EXCEPT ![prev].next = next]
         IN  [err |-> NoError, nodes |-> [h1 EXCEPT ![next].prev = prev]]

\* addToFront with the assignment node.prev = head left out.
addToFrontNoBackLink(h, node) ==
    IF h[head].next = NULL
    THEN [err |-> LRUCacheError("Invalid cache state: missing head link", ""),
          nodes |-> h]
    ELSE LET first == h[head].next
             h2 == [h EXCEPT ![node].next = first]
             h3 == [h2 EXCEPT ![first].prev = node]
         IN  [err |-> NoError, nodes |-> [h3 EXCEPT ![head].next = node]]

addToFront(h, node) ==
    IF h[head].next = NULL
    THEN [err |-> LRUCacheError("Invalid cache state: missing head link", ""),
          nodes |-> h]
    ELSE LET first == h[head].next
             h1 == [h EXCEPT ![node].prev = head]
             h2 == [h1 EXCEPT ![node].next = first]
             h3 == [h2 EXCEPT ![first].prev = node]
         IN  [err |-> NoError, nodes |-> [h3 EXCEPT ![head].next = node]]

\* ---------------------------------------------------------- public methods
\* Each method maps the cache object s (and its arguments) to the object
\* after the call, the value returned (ret) and the error thrown (err).

Outcome(s, c, h, ret, err) ==
    [capacity |-> s.capacity, cache |-> c, nodes |-> h, ret |-> ret, err |-> err]

\* constructor with < in place of <=: a capacity of 0 is accepted.
constructorAllowsZero(c) ==
    IF c < 0
    THEN [capacity |-> c, cache |-> <<>>, nodes |-> <<>>,
          ret |-> UNDEFINED, err |-> InvalidCapacityError]
    ELSE LET h0 == (head :> LRUNode(NULLKEY, NULLKEY)) @@ (tail :> LRUNode(NULLKEY, NULLKEY))
             h1 == [h0 EXCEPT ![head].next = tail]
         IN  [capacity |-> c, cache |-> <<>>,
              nodes |-> [h1 EXCEPT ![tail].prev = head],
              ret |-> UNDEFINED, err |-> NoError]

constructor(c) ==
    IF c <= 0
    THEN [capacity |-> c, cache |-> <<>>, nodes |-> <<>>,
          ret |-> UNDEFINED, err |-> InvalidCapacityError]
    ELSE LET h0 == (head :> LRUNode(NULLKEY, NULLKEY)) @@ (tail :> LRUNode(NULLKEY, NULLKEY))
             h1 == [h0 EXCEPT ![head].next = tail]
         IN  [capacity |-> c, cache |-> <<>>,
              nodes |-> [h1 EXCEPT ![tail].prev = head],
              ret |-> UNDEFINED, err |-> NoError]

\* get with the reordering left out: a hit returns the value in place.
getNoMove(s, key) ==
    IF key \notin DOMAIN s.cache
    THEN Outcome(s, s.cache, s.nodes, UNDEFINED, KeyNotFoundError)
    ELSE Outcome(s, s.cache, s.nodes, s.nodes[s.cache[key]].value, NoError)

\* get with the lookup moved inside the try block: the miss is wrapped.
getWrapsMiss(s, key) ==
    IF key \notin DOMAIN s.cache
    THEN Outcome(s, s.cache, s.nodes, UNDEFINED,
                 LRUCacheError("Error accessing key", KeyNotFoundError.message))
    ELSE LET node == s.cache[key]
             r1   == removeNode(s.nodes, node)
             r2   == addToFront(r1.nodes, node)
         IN  Outcome(s, s.cache, r2.nodes, r2.nodes[node].value, NoError)

\* get that takes the entry out of the cache (a pop).
getPops(s, key) ==
    IF key \notin DOMAIN s.cache
    THEN Outcome(s, s.cache, s.nodes, UNDEFINED, KeyNotFoundError)
    ELSE LET node == s.cache[key]
             r1   == removeNode(s.nodes, node)
         IN  Outcome(s, [k \in DOMAIN s.cache \ {key} |-> s.cache[k]], r1.nodes,
                     s.nodes[node].value, NoError)

\* get that takes an entry holding undefined for a miss.
getTreatsUndefinedAsMiss(s, key) ==
    IF key \notin DOMAIN s.cache \/ s.nodes[s.cache[key]].value = UNDEFINED
    THEN Outcome(s, s.cache, s.nodes, UNDEFINED, KeyNotFoundError)
    ELSE LET node == s.cache[key]
             r1   == removeNode(s.nodes, node)
             r2   == addToFront(r1.nodes, node)
         IN  Outcome(s, s.cache, r2.nodes, r2.nodes[node].value, NoError)

get(s, key) ==
    IF key \notin DOMAIN s.cache
    THEN Outcome(s, s.cache, s.nodes, UNDEFINED, KeyNotFoundError)
    ELSE LET node == s.cache[key]
             r1   == removeNode(s.nodes, node)
             r2   == addToFront(r1.nodes, node)
         IN  IF r1.err # NoError
             THEN Outcome(s, s.cache, r1.nodes, UNDEFINED,
                          LRUCacheError("Error accessing key", r1.err.message))
             ELSE IF r2.err # NoError
             THEN Outcome(s, s.cache, r2.nodes, UNDEFINED,
                          LRUCacheError("Error accessing key", r2.err.message))
             ELSE Outcome(s, s.cache, r2.nodes, r2.nodes[node].value, NoError)

\* getSafe with the try/catch left out: a miss throws as get does.
getSafeRethrows(s, key) == get(s, key)

\* getSafe that converts every error of get to undefined.
getSafeSwallowsAll(s, key) ==
    LET r == get(s, key)
    IN  IF r.err # NoError THEN [r EXCEPT !.err = NoError, !.ret = UNDEFINED]
        ELSE r

getSafe(s, key) ==
    LET r == get(s, key)
    IN  IF r.err = KeyNotFoundError THEN [r EXCEPT !.err = NoError, !.ret = UNDEFINED]
        ELSE r

\* putExisting with the move to the front left out.
putExistingNoMove(s, key, value) ==
    Outcome(s, s.cache, [s.nodes EXCEPT ![s.cache[key]].value = value],
            UNDEFINED, NoError)

\* putExisting with the assignment of the new value left out.
putExistingKeepsValue(s, key, value) ==
    LET existingNode == s.cache[key]
        r1 == removeNode(s.nodes, existingNode)
        r2 == addToFront(r1.nodes, existingNode)
    IN  Outcome(s, s.cache, r2.nodes, UNDEFINED, NoError)

putExisting(s, key, value) ==
    LET existingNode == s.cache[key]
        h1 == [s.nodes EXCEPT ![existingNode].value = value]
        r1 == removeNode(h1, existingNode)
        r2 == addToFront(r1.nodes, existingNode)
    IN  IF r1.err # NoError
        THEN Outcome(s, s.cache, r1.nodes, UNDEFINED,
                     LRUCacheError("Error putting key", r1.err.message))
        ELSE IF r2.err # NoError
        THEN Outcome(s, s.cache, r2.nodes, UNDEFINED,
                     LRUCacheError("Error putting key", r2.err.message))
        ELSE Outcome(s, s.cache, r2.nodes, UNDEFINED, NoError)

\* evict with > in place of >=.
evictOffByOne(s, h) ==
    IF Cardinality(DOMAIN s.cache) > s.capacity
    THEN LET lru == h[tail].prev
             r   == removeNode(h, lru)
         IN  [err |-> NoError,
              cache |-> [k \in DOMAIN s.cache \ {h[lru].key} |-> s.cache[k]],
              nodes |-> r.nodes]
    ELSE [err |-> NoError, cache |-> s.cache, nodes |-> h]

\* evict with the cache.delete left out.
evictKeepsIndex(s, h) ==
    IF Cardinality(DOMAIN s.cache) >= s.capacity
    THEN [err |-> NoError, cache |-> s.cache,
          nodes |-> removeNode(h, h[tail].prev).nodes]
    ELSE [err |-> NoError, cache |-> s.cache, nodes |-> h]

\* evict taking the victim from the front of the list (head.next).
evictFront(s, h) ==
    IF Cardinality(DOMAIN s.cache) >= s.capacity
    THEN LET lru == h[head].next
             r   == removeNode(h, lru)
         IN  [err |-> NoError,
              cache |-> [k \in DOMAIN s.cache \ {h[lru].key} |-> s.cache[k]],
              nodes |-> r.nodes]
    ELSE [err |-> NoError, cache |-> s.cache, nodes |-> h]

\* evict comparing the size with capacity - 1.
evictEarly(s, h) ==
    IF Cardinality(DOMAIN s.cache) >= s.capacity - 1
    THEN LET lru == h[tail].prev
             r   == removeNode(h, lru)
         IN  IF r.err # NoError
             THEN [err |-> r.err, cache |-> s.cache, nodes |-> r.nodes]
             ELSE [err |-> NoError,
                   cache |-> [k \in DOMAIN s.cache \ {h[lru].key} |-> s.cache[k]],
                   nodes |-> r.nodes]
    ELSE [err |-> NoError, cache |-> s.cache, nodes |-> h]

\* The eviction step of put: [err, cache, nodes] after it.
\* evict that removes the entry before the last one when there is one.
evictBeforeLast(s, h) ==
    IF Cardinality(DOMAIN s.cache) >= s.capacity
    THEN LET last == h[tail].prev
             lru == IF h[last].prev = head THEN last ELSE h[last].prev
             r   == removeNode(h, lru)
         IN  [err |-> NoError,
              cache |-> [k \in DOMAIN s.cache \ {h[lru].key} |-> s.cache[k]],
              nodes |-> r.nodes]
    ELSE [err |-> NoError, cache |-> s.cache, nodes |-> h]

\* evict that empties a full cache instead of removing its last entry.
evictFlush(s, h) ==
    IF Cardinality(DOMAIN s.cache) >= s.capacity
    THEN LET h1 == [h EXCEPT ![head].next = tail]
         IN  [err |-> NoError, cache |-> <<>>,
              nodes |-> [h1 EXCEPT ![tail].prev = head]]
    ELSE [err |-> NoError, cache |-> s.cache, nodes |-> h]

evict(s, h) ==
    IF Cardinality(DOMAIN s.cache) >= s.capacity
    THEN LET lru == h[tail].prev
             r   == removeNode(h, lru)
         IN  IF r.err # NoError
             THEN [err |-> r.err, cache |-> s.cache, nodes |-> r.nodes]
             ELSE [err |-> NoError,
                   cache |-> [k \in DOMAIN s.cache \ {h[lru].key} |-> s.cache[k]],
                   nodes |-> r.nodes]
    ELSE [err |-> NoError, cache |-> s.cache, nodes |-> h]

putNew(s, key, value) ==
    LET newNode == NewRef(s.nodes)
        h1 == (newNode :> LRUNode(key, value)) @@ s.nodes
        e  == evict(s, h1)
        c2 == (key :> newNode) @@ e.cache
        r2 == addToFront(e.nodes, newNode)
    IN  IF e.err # NoError
        THEN Outcome(s, e.cache, e.nodes, UNDEFINED,
                     LRUCacheError("Error putting key", e.err.message))
        ELSE IF r2.err # NoError
        THEN Outcome(s, c2, r2.nodes, UNDEFINED,
                     LRUCacheError("Error putting key", r2.err.message))
        ELSE Outcome(s, c2, r2.nodes, UNDEFINED, NoError)

\* put with the lookup of the existing node left out.
putNoLookup(s, key, value) ==
    IF key = NULLKEY \/ key = UNDEFINED
    THEN Outcome(s, s.cache, s.nodes, UNDEFINED, InvalidKeyError)
    ELSE putNew(s, key, value)

\* put with the check of the key left out.
putNoKeyCheck(s, key, value) ==
    IF key \in DOMAIN s.cache
    THEN putExisting(s, key, value)
    ELSE putNew(s, key, value)

put(s, key, value) ==
    IF key = NULLKEY \/ key = UNDEFINED
    THEN Outcome(s, s.cache, s.nodes, UNDEFINED, InvalidKeyError)
    ELSE IF key \in DOMAIN s.cache
    THEN putExisting(s, key, value)
    ELSE putNew(s, key, value)

size(s) == Outcome(s, s.cache, s.nodes, Cardinality(DOMAIN s.cache), NoError)

\* clear with the reset of the list left out: only the map is cleared.
clearMapOnly(s) == Outcome(s, <<>>, s.nodes, UNDEFINED, NoError)

clear(s) ==
    LET h1 == [s.nodes EXCEPT ![head].next = tail]
    IN  Outcome(s, <<>>, [h1 EXCEPT ![tail].prev = head], UNDEFINED, NoError)

\* The loop of keys(): from `current` to tail.  `fuel` bounds the walk, which
\* does not end on a list that has a cycle.
RECURSIVE keysFrom(_, _, _)
keysFrom(h, current, fuel) ==
    IF current = tail THEN [err |-> NoError, keys |-> <<>>]
    ELSE IF current = NULL
    THEN [err |-> LRUCacheError("Invalid cache state: broken link in chain", ""),
          keys |-> <<>>]
    ELSE IF fuel = 0
    THEN [err |-> NonTermination, keys |-> <<>>]
    ELSE LET r == keysFrom(h, h[current].next, fuel - 1)
         IN  IF r.err # NoError THEN r
             ELSE [err |-> NoError, keys |-> <<h[current].key>> \o r.keys]

\* keys that lists the tail sentinel as well.
keysWithSentinel(s) ==
    LET r == keysFrom(s.nodes, s.nodes[head].next, Cardinality(DOMAIN s.nodes))
    IN  IF r.err # NoError
        THEN Outcome(s, s.cache, s.nodes, UNDEFINED,
                     LRUCacheError("Error getting keys", r.err.message))
        ELSE Outcome(s, s.cache, s.nodes, r.keys \o <<s.nodes[tail].key>>, NoError)

keys(s) ==
    LET r == keysFrom(s.nodes, s.nodes[head].next, Cardinality(DOMAIN s.nodes))
    IN  IF r.err = NonTermination
        THEN Outcome(s, s.cache, s.nodes, UNDEFINED, NonTermination)
        ELSE IF r.err # NoError
        THEN Outcome(s, s.cache, s.nodes, UNDEFINED,
                     LRUCacheError("Error getting keys", r.err.message))
        ELSE Outcome(s, s.cache, s.nodes, r.keys, NoError)

\* has implemented with get: a hit moves the key to the front.
hasViaGet(s, key) ==
    IF key \in DOMAIN s.cache
    THEN [get(s, key) EXCEPT !.ret = TRUE]
    ELSE Outcome(s, s.cache, s.nodes, FALSE, NoError)

has(s, key) == Outcome(s, s.cache, s.nodes, key \in DOMAIN s.cache, NoError)

\* ----------------------------------------------------------------- actions
\* The cache has one owner and every method is synchronous: the owner calls
\* a method, the method runs to its return or throw, the owner takes the
\* result, and only then makes its next call.

NoCall ==
    [name |-> "idle", key |-> UNDEFINED, value |-> UNDEFINED,
     ret |-> UNDEFINED, err |-> NoError]

\* What a call leaves on the heap: garbage is collected and nodes are moved,
\* unless the call touched neither the map nor a node.
Settle(r) ==
    IF r.nodes = nodes /\ r.cache = cache THEN [cache |-> cache, nodes |-> nodes]
    ELSE LET h  == Collect(r.nodes, r.cache)
             to == Relocation(h)
         IN  [cache |-> MoveCache(r.cache, to), nodes |-> MoveNodes(h, to)]

\* The elements of a sequence, and a sequence without one element.
Elems(q) == {q[i] : i \in 1..Len(q)}

Without(q, k) == SelectSeq(q, LAMBDA x : x # k)

\* The reference LRU model: a duplicate-free sequence of keys, most recently
\* used first.  put(k, _) and a get/getSafe of a key in it move the key to the
\* front, a put of a key not in it drops the last element first when c keys
\* are held, clear empties it, and nothing else changes it.
RefStep(m, c, name, key) ==
    IF name = "put" /\ key \in Keys
    THEN IF key \in Elems(m) THEN <<key>> \o Without(m, key)
         ELSE IF Len(m) >= c THEN <<key>> \o SubSeq(m, 1, Len(m) - 1)
         ELSE <<key>> \o m
    ELSE IF name \in {"get", "getSafe"} /\ key \in Elems(m)
    THEN <<key>> \o Without(m, key)
    ELSE IF name = "clear" THEN <<>>
    ELSE m

\* The value of the latest put of every key that is live after the call.
PutStep(f, name, key, value, r) ==
    LET g == IF name = "put" /\ r.err = NoError THEN (key :> value) @@ f ELSE f
    IN  [k \in DOMAIN g \cap DOMAIN r.cache |-> g[k]]

\* A public call ran to its return or throw and is recorded in op; old is
\* the object the call started on.
CallBody(name, key, value, r) ==
    /\ capacity' = r.capacity
    /\ cache' = Settle(r).cache
    /\ nodes' = Settle(r).nodes
    /\ op' = [name |-> name, key |-> key, value |-> value,
              ret |-> r.ret, err |-> r.err]
    /\ old' = this
    /\ refLru' = RefStep(refLru, capacity, name, key)
    /\ lastPut' = PutStep(lastPut, name, key, value, r)

Call(name, key, value, r) ==
    /\ op = NoCall
    /\ CallBody(name, key, value, r)
    /\ UNCHANGED since

Init ==
    \E c \in 1..MaxCapacity :
        /\ constructor(c).err = NoError
        /\ capacity = constructor(c).capacity
        /\ cache = constructor(c).cache
        /\ nodes = constructor(c).nodes
        /\ op = NoCall
        /\ old = [capacity |-> constructor(c).capacity,
                  cache |-> constructor(c).cache,
                  nodes |-> constructor(c).nodes]
        /\ refLru = <<>>
        /\ lastPut = <<>>
        /\ since = <<>>

Put == \E key \in KeyInputs, value \in Values : Call("put", key, value, put(this, key, value))

Get == \E key \in KeyInputs : Call("get", key, UNDEFINED, get(this, key))

GetSafe == \E key \in KeyInputs : Call("getSafe", key, UNDEFINED, getSafe(this, key))

Has == \E key \in KeyInputs : Call("has", key, UNDEFINED, has(this, key))

Size == Call("size", UNDEFINED, UNDEFINED, size(this))

KeysCall == Call("keys", UNDEFINED, UNDEFINED, keys(this))

Clear == Call("clear", UNDEFINED, UNDEFINED, clear(this))

\* The owner takes the result of the call; the object is ready for the next.
Return ==
    /\ op # NoCall
    /\ op' = NoCall
    /\ old' = this
    /\ UNCHANGED <<capacity, cache, nodes, refLru, lastPut, since>>

Next == Put \/ Get \/ GetSafe \/ Has \/ Size \/ KeysCall \/ Clear \/ Return

Spec == Init /\ [][Next]_vars

\* --------------------------------------------------------- construction
\* The owner before it holds a cache: it constructs one with any integer
\* capacity, a failed construction leaves it without a cache, and the public
\* methods are called on a constructed cache only.

\* The capacities passed to the constructor: negative, zero and positive.
CapacityInputs == (-1)..MaxCapacity

\* No cache object exists (the constructor has not returned one).
NoCache == nodes = <<>>

InitNew ==
    /\ capacity = 0
    /\ cache = <<>>
    /\ nodes = <<>>
    /\ op = NoCall
    /\ old = [capacity |-> 0, cache |-> <<>>, nodes |-> <<>>]
    /\ refLru = <<>>
    /\ lastPut = <<>>
    /\ since = <<>>

Construct ==
    /\ op = NoCall
    /\ NoCache
    /\ \E c \in CapacityInputs :
         LET r == constructor(c)
         IN  /\ IF r.err = NoError
                THEN /\ capacity' = r.capacity
                     /\ cache' = r.cache
                     /\ nodes' = r.nodes
                ELSE UNCHANGED <<capacity, cache, nodes>>
             /\ op' = [name |-> "constructor", key |-> UNDEFINED, value |-> c,
                       ret |-> UNDEFINED, err |-> r.err]
    /\ old' = this
    /\ UNCHANGED <<refLru, lastPut, since>>

NextNew == Construct \/ Return \/ (~NoCache /\ Next)

SpecNew == InitNew /\ [][NextNew]_vars

\* ------------------------------------------------------------- corruption
\* The error-handling tests build a cache with the public methods, reach its
\* private fields through a cast, break one link (head.next = null, or the
\* prev/next of a node of the map), and make one more call.  The cache is
\* used further only if that call left it consistent.  The caches corrupted
\* are those of a capacity below MaxCapacity (the tests use capacity 2).

\* The list and the map of s are consistent: the nodes from head along next
\* end at tail, prev mirrors next, and the map holds exactly these nodes
\* under their keys.
WellFormed(s) ==
    LET R == refsFrom(s.nodes, s.nodes[head].next, Cardinality(DOMAIN s.nodes))
        before(i) == IF i = 1 THEN head ELSE R[i - 1]
        after(i) == IF i = Len(R) THEN tail ELSE R[i + 1]
    IN  /\ DOMAIN s.nodes = {head, tail} \cup {R[i] : i \in 1..Len(R)}
        /\ Cardinality({R[i] : i \in 1..Len(R)}) = Len(R)
        /\ s.nodes[head].next = after(0)
        /\ s.nodes[tail].prev = before(Len(R) + 1)
        /\ \A i \in 1..Len(R) :
               /\ s.nodes[R[i]].prev = before(i)
               /\ s.nodes[R[i]].next = after(i)
               /\ s.nodes[R[i]].key \in DOMAIN s.cache
               /\ s.cache[s.nodes[R[i]].key] = R[i]
        /\ Cardinality(DOMAIN s.cache) = Len(R)

\* The links a test sets to null: head.next and both links of the entries.
Links(s) ==
    {<<head, "next">>} \cup ({s.cache[k] : k \in DOMAIN s.cache} \X {"prev", "next"})

Corrupt ==
    /\ op = NoCall
    /\ capacity < MaxCapacity
    /\ WellFormed(this)
    /\ \E l \in Links(this) :
         /\ nodes' = IF l[2] = "prev"
                     THEN [nodes EXCEPT ![l[1]].prev = NULL]
                     ELSE [nodes EXCEPT ![l[1]].next = NULL]
         /\ op' = [name |-> "corrupt", key |-> nodes[l[1]].key, value |-> l[2],
                   ret |-> UNDEFINED, err |-> NoError]
    /\ old' = this
    /\ UNCHANGED <<capacity, cache, refLru, lastPut, since>>

\* The call the test makes on the cache it has just corrupted.
CorruptedCall ==
    /\ op.name = "corrupt"
    /\ UNCHANGED since
    /\ \/ \E key \in KeyInputs, value \in Values :
            CallBody("put", key, value, put(this, key, value))
       \/ \E key \in KeyInputs : CallBody("get", key, UNDEFINED, get(this, key))
       \/ \E key \in KeyInputs : CallBody("getSafe", key, UNDEFINED, getSafe(this, key))
       \/ \E key \in KeyInputs : CallBody("has", key, UNDEFINED, has(this, key))
       \/ CallBody("size", UNDEFINED, UNDEFINED, size(this))
       \/ CallBody("keys", UNDEFINED, UNDEFINED, keys(this))
       \/ CallBody("clear", UNDEFINED, UNDEFINED, clear(this))

NextCorrupt == Corrupt \/ CorruptedCall \/ (op.name # "corrupt" /\ WellFormed(this) /\ Next)

SpecCorrupt == Init /\ [][NextCorrupt]_vars

\* ------------------------------------------------------------ retention
\* The same owner and the same calls as Spec, with one key watched from one
\* of its uses on (a successful put(k, _), or a get or getSafe that found
\* k).  For the watched key the record holds what was called since its last
\* use: how many calls put or found another key (others, which stops
\* counting at the capacity), and how many of these were puts of a key
\* absent when put (absentPuts).  clear() ends the record, and the record of
\* a removed key ends with the call after its removal; the owner may then
\* watch another key.

\* The call uses its key: put stores it, get and getSafe find it.
Uses(s, name, key, r) ==
    /\ r.err = NoError
    /\ \/ name = "put" /\ key \in Keys
       \/ name \in {"get", "getSafe"} /\ key \in DOMAIN s.cache

\* No method reads a value, so which keys stay does not depend on the values
\* put: the watched runs put one value.
WatchedValues == {"v1"}

Fresh(key) == key :> [others |-> 0, absentPuts |-> 0]

\* The records the call can leave, m being the record before it.
SinceSteps(m, s, name, key, r) ==
    LET kept == [j \in DOMAIN m \cap DOMAIN s.cache |-> m[j]]
        absent == IF name = "put" /\ key \notin DOMAIN s.cache THEN 1 ELSE 0
        count(j) == [others |-> IF kept[j].others < s.capacity
                                THEN kept[j].others + 1 ELSE kept[j].others,
                     absentPuts |-> kept[j].absentPuts + absent]
    IN  IF name = "clear" THEN {<<>>}
        ELSE IF ~Uses(s, name, key, r) THEN {kept}
        ELSE IF kept = <<>> THEN {<<>>, Fresh(key)}
        ELSE IF key \in DOMAIN kept THEN {Fresh(key)}
        ELSE {[j \in DOMAIN kept |-> count(j)]}

TrackedBody(name, key, value, r) ==
    /\ CallBody(name, key, value, r)
    /\ since' \in SinceSteps(since, this, name, key, r)

TrackedCall ==
    /\ op = NoCall
    /\ \/ \E key \in KeyInputs, value \in WatchedValues :
            TrackedBody("put", key, value, put(this, key, value))
       \/ \E key \in KeyInputs : TrackedBody("get", key, UNDEFINED, get(this, key))
       \/ \E key \in KeyInputs : TrackedBody("getSafe", key, UNDEFINED, getSafe(this, key))
       \/ \E key \in KeyInputs : TrackedBody("has", key, UNDEFINED, has(this, key))
       \/ TrackedBody("size", UNDEFINED, UNDEFINED, size(this))
       \/ TrackedBody("keys", UNDEFINED, UNDEFINED, keys(this))
       \/ TrackedBody("clear", UNDEFINED, UNDEFINED, clear(this))

NextRetention == TrackedCall \/ Return

SpecRetention == Init /\ [][NextRetention]_vars

\* -------------------------------------------------------------- observers
\* What a caller sees of a cache object s through its public methods.

KeysOk(s) == keys(s).err = NoError

KeysOf(s) == keys(s).ret

SizeOf(s) == size(s).ret

HasKey(s, k) == has(s, k).ret

\* The value held by the entry the map gives for k.
ValueOf(s, k) == s.nodes[s.cache[k]].value

StoredValues(s) == [k \in DOMAIN s.cache |-> ValueOf(s, k)]

\* The entry nodes on the list of s, from head.next up to tail.
ListRefs(s) == refsFrom(s.nodes, s.nodes[head].next, Cardinality(DOMAIN s.nodes))

NoDuplicates(q) == \A i, j \in 1..Len(q) : q[i] = q[j] => i = j

\* The last call was a put of a key that is neither null nor undefined.
PutOfKey == op.name = "put" /\ op.key \in Keys

\* ----------------------------------------------------------------- claims

\* C1: in every state reachable from a successful construction with capacity
\* C by public calls, size() <= C (and the capacity is the one constructed
\* with: no call changes it).
C1_SizeWithinCapacity ==
    /\ SizeOf(this) <= capacity
    /\ capacity = old.capacity
    /\ capacity \in 1..MaxCapacity

\* C1 witness: a put of a new key on a full cache of capacity >= 2 returned,
\* and the cache is still exactly full.
C1_Witness ==
    /\ PutOfKey /\ op.err = NoError
    /\ ~HasKey(old, op.key)
    /\ SizeOf(old) = capacity /\ SizeOf(this) = capacity /\ capacity >= 2

\* C2: the index and the list are in bijection: the map's keys are the keys
\* of the nodes from head to tail, no key occurs twice in the list, the list
\* is as long as the map is big, the map entry of k is the list node that
\* carries k, has(k) holds exactly for the keys of keys(), and size() is the
\* length of keys().
C2_IndexListBijection ==
    /\ KeysOk(this)
    /\ LET K == KeysOf(this)
           R == ListRefs(this)
       IN  /\ DOMAIN cache = Elems(K)
           /\ NoDuplicates(K)
           /\ Len(K) = Cardinality(DOMAIN cache)
           /\ Len(R) = Len(K)
           /\ \A i \in 1..Len(K) : cache[K[i]] = R[i]
           /\ \A k \in DOMAIN cache : nodes[cache[k]].key = k
           /\ \A k \in KeyInputs : HasKey(this, k) <=> k \in Elems(K)
           /\ SizeOf(this) = Len(K)

\* C2 witness: a put evicted an entry of a cache holding at least two.
C2_Witness ==
    /\ PutOfKey /\ op.err = NoError
    /\ ~HasKey(old, op.key)
    /\ SizeOf(old) = capacity /\ Len(KeysOf(this)) >= 2

\* C3: keys() equals the reference LRU sequence kept side by side.
C3_KeysRefineReference ==
    /\ KeysOk(this)
    /\ KeysOf(this) = refLru

\* C3 witness: a put on an existing key that was last of three moved it to
\* the front, in the cache and in the reference.
C3_Witness ==
    /\ PutOfKey /\ op.err = NoError
    /\ Len(KeysOf(old)) = 3 /\ KeysOf(old)[3] = op.key
    /\ refLru[1] = op.key /\ Len(refLru) = 3

\* C4: eviction law.  After put(k, v) with k absent and size() = capacity,
\* the key that was last in keys() is absent (has is false, get fails with
\* KeyNotFound), it is the only key removed, k is first in keys(), and
\* size() is still the capacity.
C4_EvictionLaw ==
    (PutOfKey /\ ~HasKey(old, op.key) /\ SizeOf(old) = old.capacity) =>
        LET last == KeysOf(old)[Len(KeysOf(old))]
        IN  /\ op.err = NoError
            /\ ~HasKey(this, last)
            /\ get(this, last).err = KeyNotFoundError
            /\ getSafe(this, last).ret = UNDEFINED
            /\ DOMAIN cache = (DOMAIN old.cache \ {last}) \cup {op.key}
            /\ KeysOk(this)
            /\ Len(KeysOf(this)) >= 1 /\ KeysOf(this)[1] = op.key
            /\ SizeOf(this) = capacity

\* C4 witness: a put of a new key on a full cache of three entries returned.
C4_Witness ==
    /\ PutOfKey /\ op.err = NoError
    /\ ~HasKey(old, op.key)
    /\ SizeOf(old) = old.capacity /\ old.capacity = 3

\* C5: recency law.  After get(k) succeeds on a present key, k is the first
\* element of keys() and the value returned is the value stored for k.
C5_RecencyLaw ==
    (op.name = "get" /\ op.err = NoError /\ HasKey(old, op.key)) =>
        /\ KeysOk(this)
        /\ Len(KeysOf(this)) >= 1 /\ KeysOf(this)[1] = op.key
        /\ op.ret = ValueOf(old, op.key)
        /\ HasKey(this, op.key) /\ op.ret = ValueOf(this, op.key)

\* C5 witness: a get succeeded on a key that was not first in keys().
C5_Witness ==
    /\ op.name = "get" /\ op.err = NoError
    /\ Len(KeysOf(old)) >= 2 /\ KeysOf(old)[1] # op.key
    /\ op.ret = "v1"

\* C6: update-as-use.  put(k, v2) on a present key k replaces its value by
\* v2, leaves keys() as a get(k) would leave it (k moved to the front, the
\* others in their order), leaves size() and the set of live keys unchanged
\* and evicts nothing, also when the cache is full.
C6_UpdateAsUse ==
    (PutOfKey /\ HasKey(old, op.key)) =>
        /\ op.err = NoError
        /\ HasKey(this, op.key) /\ ValueOf(this, op.key) = op.value
        /\ KeysOk(this) /\ KeysOk(get(old, op.key))
        /\ KeysOf(this) = KeysOf(get(old, op.key))
        /\ KeysOf(this) = <<op.key>> \o Without(KeysOf(old), op.key)
        /\ SizeOf(this) = SizeOf(old)
        /\ DOMAIN cache = DOMAIN old.cache

\* C6 witness: a put replaced the value of a key that was last in a full
\* cache of at least two entries.
C6_Witness ==
    /\ PutOfKey /\ op.err = NoError /\ HasKey(old, op.key)
    /\ SizeOf(old) = old.capacity /\ old.capacity >= 2
    /\ KeysOf(old)[Len(KeysOf(old))] = op.key
    /\ ValueOf(old, op.key) # op.value

\* C7: round trip.  A get(k) right after put(k, v) returns v, and any
\* successful get(k) returns the value of the most recent put(k, _), whatever
\* calls came in between.
C7_RoundTrip ==
    /\ DOMAIN lastPut = DOMAIN cache
    /\ (PutOfKey /\ op.err = NoError) =>
           /\ get(this, op.key).err = NoError
           /\ get(this, op.key).ret = op.value
    /\ (op.name = "get" /\ op.err = NoError) =>
           /\ op.key \in DOMAIN lastPut
           /\ op.ret = lastPut[op.key]

\* C7 witness: a get returned the value put for a key that other calls had
\* pushed to the last of three places since.
C7_Witness ==
    /\ op.name = "get" /\ op.err = NoError
    /\ Len(KeysOf(old)) = 3 /\ KeysOf(old)[3] = op.key
    /\ op.ret = "v1" /\ lastPut[op.key] = "v1"
    /\ \E k \in DOMAIN lastPut : lastPut[k] # "v1"

\* C8: put(k, v) with k absent and size() < capacity increases size() by
\* exactly 1, removes no key, and places k first in keys().
C8_PutBelowCapacity ==
    (PutOfKey /\ ~HasKey(old, op.key) /\ SizeOf(old) < old.capacity) =>
        /\ op.err = NoError
        /\ SizeOf(this) = SizeOf(old) + 1
        /\ DOMAIN cache = DOMAIN old.cache \cup {op.key}
        /\ \A k \in DOMAIN old.cache : HasKey(this, k)
        /\ KeysOk(this)
        /\ Len(KeysOf(this)) >= 1 /\ KeysOf(this)[1] = op.key

\* C8 witness: a put added a third key to a cache holding two.
C8_Witness ==
    /\ PutOfKey /\ op.err = NoError /\ ~HasKey(old, op.key)
    /\ SizeOf(old) = 2 /\ old.capacity = 3 /\ SizeOf(this) = 3

\* C9: get(k) on an absent key fails with KeyNotFound and leaves the cache
\* unchanged: keys() (content and order), size() and every stored value.
C9_GetMissNoEffect ==
    (op.name = "get" /\ ~HasKey(old, op.key)) =>
        /\ op.err = KeyNotFoundError
        /\ KeysOk(this) /\ KeysOf(this) = KeysOf(old)
        /\ SizeOf(this) = SizeOf(old)
        /\ StoredValues(this) = StoredValues(old)
        /\ this = old

\* C9 witness: a get of an absent key failed on a cache holding two entries.
C9_Witness ==
    /\ op.name = "get" /\ op.key \in Keys /\ ~HasKey(old, op.key)
    /\ op.err = KeyNotFoundError /\ SizeOf(old) = 2

\* C10: put(k, v) with k null or undefined fails with the InvalidKey error
\* and has no effect: nothing is stored, nothing is evicted (also on a full
\* cache), and keys(), size() and all values are unchanged.
C10_PutNullKeyNoEffect ==
    (op.name = "put" /\ op.key \in {NULLKEY, UNDEFINED}) =>
        /\ op.err = InvalidKeyError
        /\ ~HasKey(this, op.key)
        /\ KeysOk(this) /\ KeysOf(this) = KeysOf(old)
        /\ SizeOf(this) = SizeOf(old)
        /\ StoredValues(this) = StoredValues(old)
        /\ this = old

\* C10 witness: a put with a null key failed on a full cache.
C10_Witness ==
    /\ op.name = "put" /\ op.key = NULLKEY /\ op.err = InvalidKeyError
    /\ SizeOf(old) = old.capacity /\ SizeOf(this) = old.capacity

\* C11: construction with a capacity that is not positive (0, negative)
\* fails with InvalidCapacity and produces no cache; construction with a
\* positive capacity succeeds and yields an empty cache of that capacity:
\* size() = 0, keys() is empty and has(k) is false for every k.
C11_Construction ==
    (op.name = "constructor") =>
        /\ (op.value <= 0) =>
               /\ op.err = InvalidCapacityError
               /\ NoCache
        /\ (op.value > 0) =>
               /\ op.err = NoError
               /\ ~NoCache
               /\ capacity = op.value
               /\ SizeOf(this) = 0
               /\ KeysOk(this) /\ KeysOf(this) = <<>>
               /\ \A k \in KeyInputs : ~HasKey(this, k)

\* C11 witness: a construction with capacity 0 failed and left no cache.
C11_Witness ==
    /\ op.name = "constructor" /\ op.value = 0
    /\ op.err = InvalidCapacityError /\ NoCache

\* C12: getSafe(k) never fails on a miss: for an absent key it returns
\* undefined and leaves the cache unchanged; for a present key it returns the
\* value get(k) returns and leaves the state get(k) leaves (k at the front).
C12_GetSafe ==
    (op.name = "getSafe") =>
        /\ ~HasKey(old, op.key) =>
               /\ op.err = NoError /\ op.ret = UNDEFINED
               /\ this = old
        /\ HasKey(old, op.key) =>
               LET g == get(old, op.key)
               IN  /\ op.err = NoError /\ g.err = NoError
                   /\ op.ret = g.ret
                   /\ KeysOk(this) /\ KeysOk(g)
                   /\ KeysOf(this) = KeysOf(g)
                   /\ KeysOf(this)[1] = op.key
                   /\ StoredValues(this) = StoredValues(g)
                   /\ SizeOf(this) = SizeOf(g)

\* C12 witness: getSafe of an absent key returned undefined on a cache that
\* holds two entries.
C12_Witness ==
    /\ op.name = "getSafe" /\ op.key \in Keys /\ ~HasKey(old, op.key)
    /\ op.err = NoError /\ op.ret = UNDEFINED /\ SizeOf(old) = 2

\* C13: has(k), size() and keys() are pure queries: a call changes neither
\* the recency order nor the key set nor any value, and a repeated call
\* returns the same result.
C13_PureQueries ==
    (op.name \in {"has", "size", "keys"}) =>
        /\ op.err = NoError
        /\ this = old
        /\ KeysOk(this) /\ KeysOf(this) = KeysOf(old)
        /\ StoredValues(this) = StoredValues(old)
        /\ (op.name = "has") =>
               /\ op.ret = has(this, op.key).ret
               /\ op.ret = (op.key \in Elems(KeysOf(old)))
        /\ (op.name = "size") =>
               /\ op.ret = size(this).ret
               /\ op.ret = Len(KeysOf(old))
        /\ (op.name = "keys") =>
               /\ op.ret = keys(this).ret
               /\ keys(this).ret = keys(keys(this)).ret

\* C13 witness: has returned true for a key that is last of three in keys().
C13_Witness ==
    /\ op.name = "has" /\ op.ret = TRUE
    /\ Len(KeysOf(old)) = 3 /\ KeysOf(old)[3] = op.key

\* The cache after put(k, v) for every key k of the sequence ks, in order.
RECURSIVE PutAll(_, _, _)
PutAll(s, ks, v) ==
    IF ks = <<>> THEN s ELSE PutAll(put(s, Head(ks), v), Tail(ks), v)

\* C14: clear() never fails and leaves the cache empty: size() = 0, keys()
\* is empty, every key that was present is absent (has is false, get fails
\* with KeyNotFound); the cache stays operational: a put(k, v) followed by
\* get(k) returns v, and capacity entries can be stored again with no
\* eviction.
C14_Clear ==
    (op.name = "clear") =>
        /\ op.err = NoError
        /\ SizeOf(this) = 0
        /\ KeysOk(this) /\ KeysOf(this) = <<>>
        /\ \A k \in DOMAIN old.cache :
               /\ ~HasKey(this, k)
               /\ get(this, k).err = KeyNotFoundError
        /\ \A k \in Keys, v \in Values :
               /\ put(this, k, v).err = NoError
               /\ get(put(this, k, v), k).err = NoError
               /\ get(put(this, k, v), k).ret = v
        /\ LET ks == [i \in 1..capacity |-> KeyNames[i]]
               f  == PutAll(this, ks, "v1")
           IN  /\ SizeOf(f) = capacity
               /\ KeysOk(f) /\ Elems(KeysOf(f)) = Elems(ks)
               /\ Len(KeysOf(f)) = capacity

\* C14 witness: clear returned on a cache that held three entries.
C14_Witness ==
    /\ op.name = "clear" /\ op.err = NoError
    /\ SizeOf(old) = 3 /\ SizeOf(this) = 0

\* C15: in every state reached through the public methods no call raises
\* an internal-inconsistency error: put with a non-null key never fails, get
\* fails only with KeyNotFound and only on an absent key, keys() and clear()
\* never fail.  The guards of removeNode ('missing links'), addToFront
\* ('missing head link') and keys ('broken link in chain') cannot trigger in
\* the state reached, and on a full cache tail.prev is a real entry, never
\* the head sentinel.
C15_NoInternalError ==
    /\ (op.name = "put" /\ op.key \in Keys) => op.err = NoError
    /\ (op.name = "put" /\ op.key \notin Keys) => op.err = InvalidKeyError
    /\ (op.name = "get") =>
           \/ HasKey(old, op.key) /\ op.err = NoError
           \/ ~HasKey(old, op.key) /\ op.err = KeyNotFoundError
    /\ (op.name \in {"getSafe", "has", "size", "keys", "clear"}) =>
           op.err = NoError
    /\ nodes[head].next # NULL
    /\ \A k \in DOMAIN cache : removeNode(nodes, cache[k]).err = NoError
    /\ \A k \in DOMAIN cache :
           addToFront(removeNode(nodes, cache[k]).nodes, cache[k]).err = NoError
    /\ keys(this).err = NoError
    /\ clear(this).err = NoError
    /\ (SizeOf(this) >= capacity) =>
           LET lru == nodes[tail].prev
           IN  /\ lru \notin {NULL, head, tail}
               /\ \E k \in DOMAIN cache : cache[k] = lru
               /\ removeNode(nodes, lru).err = NoError

\* C15 witness: a put evicted a real entry from a full cache of two.
C15_Witness ==
    /\ PutOfKey /\ op.err = NoError /\ ~HasKey(old, op.key)
    /\ SizeOf(old) = 2 /\ old.capacity = 2
    /\ old.nodes[old.nodes[tail].prev].key \in Keys
    /\ ~HasKey(this, old.nodes[old.nodes[tail].prev].key)

\* The last call was made on a cache whose links a test had just broken.
OnCorrupted == op.name \in {"put", "get", "getSafe", "has", "size", "keys", "clear"}
               /\ ~WellFormed(old)

\* C16: every public operation is atomic.  Whenever a call fails, with the
\* null-key error, KeyNotFound or an error of the link checks of removeNode
\* and addToFront, the state after the failure is the state before the call:
\* the map holds the same keys (no entry added, none removed), every entry
\* holds the same value (none replaced) and the list from head holds the
\* same nodes with the same links.
C16_Atomic ==
    (op.name \in {"put", "get", "getSafe", "has", "size", "keys", "clear"}
     /\ op.err # NoError) =>
        /\ DOMAIN cache = DOMAIN old.cache
        /\ StoredValues(this) = StoredValues(old)
        /\ ListRefs(this) = ListRefs(old)
        /\ this = old

\* C17: values are unrestricted while keys are not.  put(k, v) with a key k
\* that is neither null nor undefined and v the absent-like value undefined
\* succeeds; after it has(k) is true, k is first in keys(), size() counts it
\* (it is the number of keys listed, one more than before when k is new and
\* the cache was not full), and get(k) returns v and does not fail with
\* KeyNotFound.  Any later get or getSafe of a key holding undefined succeeds
\* as well, whereas put with a null or undefined key fails.
C17_AbsentLikeValues ==
    /\ (PutOfKey /\ op.value = UNDEFINED) =>
           /\ op.err = NoError
           /\ HasKey(this, op.key)
           /\ KeysOk(this) /\ KeysOf(this) # <<>> /\ KeysOf(this)[1] = op.key
           /\ SizeOf(this) = Len(KeysOf(this))
           /\ (~HasKey(old, op.key) /\ SizeOf(old) < old.capacity) =>
                  SizeOf(this) = SizeOf(old) + 1
           /\ get(this, op.key).err = NoError
           /\ get(this, op.key).ret = UNDEFINED
           /\ getSafe(this, op.key).err = NoError
    /\ (op.name \in {"get", "getSafe"} /\ HasKey(old, op.key)
        /\ ValueOf(old, op.key) = UNDEFINED) =>
           op.err = NoError /\ op.ret = UNDEFINED /\ HasKey(this, op.key)
    /\ (op.name = "put" /\ op.key \in {NULLKEY, UNDEFINED}) =>
           op.err = InvalidKeyError

\* C17 witness: put stored undefined under a new key next to another entry,
\* and get of that key returns it.
C17_Witness ==
    /\ PutOfKey /\ op.value = UNDEFINED /\ op.err = NoError
    /\ ~HasKey(old, op.key) /\ SizeOf(old) = 1 /\ SizeOf(this) = 2
    /\ get(this, op.key).ret = UNDEFINED /\ get(this, op.key).err = NoError

\* instanceof LRUCacheError: the class itself or one of its subclasses.
IsLRUCacheError(e) ==
    e.name \in {"LRUCacheError", "KeyNotFoundError", "InvalidCapacityError"}

\* The node the map of s gives for k lacks its prev or its next link.
MissingLink(s, k) ==
    s.nodes[s.cache[k]].prev = NULL \/ s.nodes[s.cache[k]].next = NULL

HeadLinkMissing(s) == s.nodes[head].next = NULL

\* C18 as stated: on a cache with a missing link (of a live node or of the
\* head sentinel) get, put, keys and clear fail with an LRUCacheError, and
\* getSafe re-raises that error.
C18_CorruptedFails ==
    OnCorrupted =>
        /\ (op.name \in {"get", "put", "keys", "clear"}) =>
               IsLRUCacheError(op.err)
        /\ (op.name = "getSafe" /\ op.key \in DOMAIN old.cache) =>
               IsLRUCacheError(op.err)

\* C18 amended: on a cache that is consistent but for one missing link
\* (head.next, or the prev or next of one live node), a call fails only when
\* it reaches the missing link, and then with an LRUCacheError that wraps
\* the link check's message:
\*   - no call fails with anything but an LRUCacheError or KeyNotFound;
\*   - get, getSafe and put of a present key whose node lacks a link fail
\*     ('missing links');
\*   - get, getSafe and put of a present key whose node has both links fail
\*     ('missing head link') exactly when head.next is missing and the node
\*     is not the one linked back to head, and succeed otherwise; put of a
\*     new key on a cache that is not full fails when head.next is missing;
\*   - keys() fails ('broken link in chain') exactly when head.next or the
\*     next link of a live node is missing;
\*   - clear() checks no link: it succeeds and leaves an empty, consistent
\*     cache; has and size never fail;
\*   - getSafe returns or raises what get does, except KeyNotFound, which
\*     it converts to undefined: an LRUCacheError of get is re-raised.
C18_CorruptedLinks ==
    OnCorrupted =>
        LET present == op.key \in DOMAIN old.cache
            intact == present /\ ~MissingLink(old, op.key)
            afterHead == old.nodes[old.cache[op.key]].prev = head
            g == get(old, op.key)
        IN  /\ op.err \in {NoError, KeyNotFoundError} \/ op.err.name = "LRUCacheError"
            /\ (op.name \in {"get", "getSafe", "put"} /\ present
                /\ MissingLink(old, op.key)) =>
                   /\ op.err.name = "LRUCacheError"
                   /\ op.err.cause = "Invalid node state: missing links"
            /\ (op.name \in {"get", "getSafe", "put"} /\ intact) =>
                   IF HeadLinkMissing(old) /\ ~afterHead
                   THEN /\ op.err.name = "LRUCacheError"
                        /\ op.err.cause = "Invalid cache state: missing head link"
                   ELSE op.err = NoError
            /\ (PutOfKey /\ ~present /\ SizeOf(old) < old.capacity
                /\ HeadLinkMissing(old)) =>
                   /\ op.err.name = "LRUCacheError"
                   /\ op.err.cause = "Invalid cache state: missing head link"
            /\ (op.name = "keys") =>
                   IF \/ HeadLinkMissing(old)
                      \/ \E k \in DOMAIN old.cache :
                             old.nodes[old.cache[k]].next = NULL
                   THEN /\ op.err.name = "LRUCacheError"
                        /\ op.err.cause = "Invalid cache state: broken link in chain"
                   ELSE op.err = NoError
            /\ (op.name = "clear") =>
                   op.err = NoError /\ cache = <<>> /\ WellFormed(this)
            /\ (op.name \in {"has", "size"}) => op.err = NoError
            /\ (op.name = "getSafe") =>
                   IF g.err = KeyNotFoundError
                   THEN op.err = NoError /\ op.ret = UNDEFINED
                   ELSE op.err = g.err /\ op.ret = g.ret

\* C18 witness: getSafe of a present key whose node lacks its prev link
\* raised the LRUCacheError of get.
C18_Witness ==
    /\ OnCorrupted /\ op.name = "getSafe"
    /\ op.key \in DOMAIN old.cache /\ old.nodes[old.cache[op.key]].prev = NULL
    /\ op.err.name = "LRUCacheError" /\ SizeOf(old) = 2

\* C19: a successful get(k) or getSafe(k) changes nothing but the position
\* of k.  The other keys keep their relative order in keys(), the key set,
\* size(), the capacity and every stored value (k's included) are unchanged,
\* and when k is already first keys() is unchanged.  (A getSafe that misses
\* changes nothing at all.)
C19_GetFrame ==
    (op.name \in {"get", "getSafe"} /\ op.err = NoError) =>
        /\ KeysOk(this) /\ KeysOk(old)
        /\ Without(KeysOf(this), op.key) = Without(KeysOf(old), op.key)
        /\ Elems(KeysOf(this)) = Elems(KeysOf(old))
        /\ DOMAIN cache = DOMAIN old.cache
        /\ SizeOf(this) = SizeOf(old)
        /\ StoredValues(this) = StoredValues(old)
        /\ capacity = old.capacity
        /\ (KeysOf(old) # <<>> /\ KeysOf(old)[1] = op.key) =>
               KeysOf(this) = KeysOf(old)
        /\ ~HasKey(old, op.key) => KeysOf(this) = KeysOf(old)

\* C19 witness: get of the last of three keys moved it past the other two,
\* which kept their order.
C19_Witness ==
    /\ op.name = "get" /\ op.err = NoError
    /\ Len(KeysOf(old)) = 3 /\ KeysOf(old)[3] = op.key
    /\ KeysOf(this) = <<op.key, KeysOf(old)[1], KeysOf(old)[2]>>
    /\ \E k \in DOMAIN cache : ValueOf(this, k) # ValueOf(this, op.key)

\* C20: put(k, v) leaves every other surviving entry untouched.  The keys
\* other than k present after the call were present before, keep their
\* relative order in keys() and their stored values; a single put removes at
\* most one key, and none when k was present or size() < capacity.
C20_PutFrame ==
    (PutOfKey /\ op.err = NoError) =>
        LET survivors == DOMAIN cache \ {op.key}
            removed == DOMAIN old.cache \ DOMAIN cache
        IN  /\ KeysOk(this) /\ KeysOk(old)
            /\ survivors \subseteq DOMAIN old.cache
            /\ Without(KeysOf(this), op.key) =
                   SelectSeq(KeysOf(old), LAMBDA x : x \in survivors)
            /\ \A x \in survivors : ValueOf(this, x) = ValueOf(old, x)
            /\ Cardinality(removed) <= 1
            /\ (HasKey(old, op.key) \/ SizeOf(old) < old.capacity) =>
                   removed = {}
            /\ capacity = old.capacity

\* C20 witness: a put of a new key on a full cache of three removed one key
\* and left the other two, which hold different values, in their order.
C20_Witness ==
    /\ PutOfKey /\ op.err = NoError /\ ~HasKey(old, op.key)
    /\ Len(KeysOf(old)) = 3 /\ old.capacity = 3
    /\ KeysOf(this) = <<op.key, KeysOf(old)[1], KeysOf(old)[2]>>
    /\ ValueOf(this, KeysOf(old)[1]) # ValueOf(this, KeysOf(old)[2])

\* The walk from `current` along prev up to head: whether it reaches head,
\* and the keys it visits.
RECURSIVE keysBackFrom(_, _, _)
keysBackFrom(h, current, fuel) ==
    IF current = head THEN [ok |-> TRUE, keys |-> <<>>]
    ELSE IF current = NULL \/ current \notin DOMAIN h \/ fuel = 0
    THEN [ok |-> FALSE, keys |-> <<>>]
    ELSE LET r == keysBackFrom(h, h[current].prev, fuel - 1)
         IN  [ok |-> r.ok, keys |-> <<h[current].key>> \o r.keys]

Reverse(q) == [i \in 1..Len(q) |-> q[Len(q) + 1 - i]]

\* C21: after every public operation the list is a consistent doubly-linked
\* chain.  Every node n from head up to but excluding tail has a non-null
\* n.next with n.next.prev = n; following prev from tail reaches head and
\* visits the keys of keys() in exactly the reverse order, so tail.prev is
\* the entry that is last in keys(), or head when the cache is empty.
C21_DoublyLinkedChain ==
    LET K == KeysOf(this)
        R == ListRefs(this)
        B == keysBackFrom(nodes, nodes[tail].prev, Cardinality(DOMAIN nodes))
    IN  /\ KeysOk(this)
        /\ Len(R) = Len(K)
        /\ \A n \in {head} \cup Elems(R) :
               /\ nodes[n].next # NULL
               /\ nodes[n].next \in DOMAIN nodes
               /\ nodes[nodes[n].next].prev = n
        /\ B.ok
        /\ B.keys = Reverse(K)
        /\ IF K = <<>>
           THEN nodes[tail].prev = head /\ nodes[head].next = tail
           ELSE /\ nodes[tail].prev \in Elems(R)
                /\ nodes[nodes[tail].prev].key = K[Len(K)]
                /\ nodes[tail].prev = cache[K[Len(K)]]

\* C21 witness: get moved the middle one of three entries to the front, and
\* the walk back from tail lists the three keys in reverse.
C21_Witness ==
    /\ op.name = "get" /\ op.err = NoError
    /\ Len(KeysOf(old)) = 3 /\ KeysOf(old)[2] = op.key
    /\ KeysOf(this) = <<op.key, KeysOf(old)[1], KeysOf(old)[3]>>
    /\ keysBackFrom(nodes, nodes[tail].prev, Cardinality(DOMAIN nodes)).keys
           = <<KeysOf(old)[3], KeysOf(old)[1], op.key>>

\* The keys the last call removed.
Removed == DOMAIN old.cache \ DOMAIN cache

\* A present key is removed only by clear() or by a put of an absent key made
\* while size() = capacity and while that key is last in keys(); get,
\* getSafe, has, keys, size and puts of present keys never remove a key.
RemovalLaw ==
    /\ Removed # {} =>
           \/ op.name = "clear"
           \/ /\ PutOfKey /\ op.err = NoError
              /\ ~HasKey(old, op.key)
              /\ SizeOf(old) = old.capacity
              /\ KeysOk(old) /\ KeysOf(old) # <<>>
              /\ Removed = {KeysOf(old)[Len(KeysOf(old))]}
    /\ (\/ op.name \in {"get", "getSafe", "has", "keys", "size"}
        \/ op.name = "put" /\ HasKey(old, op.key)) => Removed = {}

\* C22 as stated: the removal law, and hence after a successful put(k, _) or
\* get(k), k stays present through any following calls with no clear() and
\* fewer than capacity puts of keys absent at the time of the put.
C22_RetentionByAbsentPuts ==
    /\ RemovalLaw
    /\ \A k \in DOMAIN since :
           since[k].absentPuts < capacity => HasKey(this, k)

\* C22 amended: the removal law, and after a successful put(k, _) or get(k)
\* (or a getSafe that found k), k stays present through any following calls
\* with no clear() and fewer than capacity calls that put or find another
\* key: each of them, whether its key was present or absent, moves k at most
\* one place towards the back of keys(), and k is removed only from the
\* last place of a full cache.
C22_Retention ==
    /\ RemovalLaw
    /\ \A k \in DOMAIN since :
           /\ since[k].others < capacity => HasKey(this, k)
           /\ since[k].absentPuts <= since[k].others
           /\ (HasKey(this, k) /\ KeysOk(this)) =>
                  \E i \in 1..Len(KeysOf(this)) :
                      KeysOf(this)[i] = k /\ i <= 1 + since[k].others

\* C22 witness: in a cache of capacity three, two calls have used other keys
\* since the watched key's last use, one of them a get; the key is now last
\* in keys() and still present.
C22_Witness ==
    /\ capacity = 3 /\ Len(KeysOf(this)) = 3
    /\ \E k \in DOMAIN since :
           /\ since[k].others = 2 /\ since[k].absentPuts = 1
           /\ KeysOf(this)[3] = k
    /\ op.name = "get" /\ op.err = NoError

\* C23: the head and tail sentinels (created with a null key) are never
\* exposed and never removed.  In every reachable state both sentinels are
\* on the heap with their null keys, at the two ends of the list, and no
\* entry of the map is a sentinel; keys() holds no null or undefined
\* element; has(null) and has(undefined) are false; get(null) and
\* get(undefined) fail with KeyNotFound; size() counts the entries only; and
\* on a full cache the eviction victim tail.prev is not a sentinel.
C23_SentinelsHidden ==
    LET K == KeysOf(this)
    IN  /\ {head, tail} \subseteq DOMAIN nodes
        /\ nodes[head].key = NULLKEY /\ nodes[tail].key = NULLKEY
        /\ nodes[head].prev = NULL /\ nodes[tail].next = NULL
        /\ \A k \in DOMAIN cache : cache[k] \notin {head, tail}
        /\ KeysOk(this)
        /\ \A i \in 1..Len(K) : K[i] \notin {NULLKEY, UNDEFINED}
        /\ head \notin Elems(ListRefs(this)) /\ tail \notin Elems(ListRefs(this))
        /\ \A k \in {NULLKEY, UNDEFINED} :
               /\ has(this, k).ret = FALSE
               /\ get(this, k).err = KeyNotFoundError
               /\ getSafe(this, k).ret = UNDEFINED
        /\ (op.name = "has" /\ op.key \in {NULLKEY, UNDEFINED}) => op.ret = FALSE
        /\ (op.name = "get" /\ op.key \in {NULLKEY, UNDEFINED}) =>
               op.err = KeyNotFoundError
        /\ SizeOf(this) = Len(K)
        /\ SizeOf(this) = Cardinality(DOMAIN nodes \ {head, tail})
        /\ (SizeOf(this) >= capacity) => nodes[tail].prev \notin {NULL, head, tail}
        /\ (PutOfKey /\ Removed # {}) =>
               \A k \in Removed : k \in Keys /\ old.cache[k] \notin {head, tail}

\* C23 witness: get(null) failed with KeyNotFound on a full cache of three,
\* whose keys() lists three keys.
C23_Witness ==
    /\ op.name = "get" /\ op.key = NULLKEY /\ op.err = KeyNotFoundError
    /\ capacity = 3 /\ Len(KeysOf(this)) = 3 /\ SizeOf(this) = 3

=============================================================================
